---- MODULE Spec2Model ----
(***************************************************************************)
(* Model of agent004_streamlit_app.py: a Streamlit script that is re-run   *)
(* from top to bottom on every user interaction of one browser session.    *)
(* Text is a sequence of characters (one-character strings); a fixed       *)
(* literal of the source is carried as a single element of such a          *)
(* sequence.  Bytes are integers 0..255.                                   *)
(***************************************************************************)
EXTENDS Integers, Sequences, FiniteSets, TLC

VARIABLES secrets_key, env_key, status, event, page, screen, uploaded_file,
          form, raw_text, session_state, api_trace, api_calls, submitted

vars == <<secrets_key, env_key, status, event, page, screen, uploaded_file,
          form, raw_text, session_state, api_trace, api_calls, submitted>>

(* ---------------------------- bounds ---------------------------------- *)

\* Largest number of invocations of the external service in one session.
MaxCalls == 2

\* Longest uploaded file, in bytes.
MaxBytes == 2

(* ------------------------- text helpers ------------------------------- *)

\* Characters str.strip() removes, among the characters of the model.
Whitespace == {" ", "\n"}

RECURSIVE lstrip(_)
lstrip(s) == IF s = <<>> THEN s
             ELSE IF Head(s) \in Whitespace THEN lstrip(Tail(s)) ELSE s

RECURSIVE rstrip(_)
rstrip(s) == IF s = <<>> THEN s
             ELSE IF s[Len(s)] \in Whitespace
                  THEN rstrip(SubSeq(s, 1, Len(s) - 1)) ELSE s

\* str.strip(): both ends.
strip(s) == rstrip(lstrip(s))

\* str.endswith(suffix)
endswith(s, suffix) ==
    /\ Len(s) >= Len(suffix)
    /\ SubSeq(s, Len(s) - Len(suffix) + 1, Len(s)) = suffix

(* --------------------------- UTF-8 ------------------------------------ *)

\* Byte values an uploaded file is made of: 'A', the two bytes of U+00E9,
\* and a byte that never occurs in UTF-8.
FileBytes == {65, 195, 169, 255}

\* Characters of the model that have a name of their own.
CharTable == {<<65, "A">>, <<233, "U+00E9">>}

\* The character with code point cp.
Chr(cp) == IF \E p \in CharTable : p[1] = cp
           THEN (CHOOSE p \in CharTable : p[1] = cp)[2]
           ELSE ToString(cp)

IsCont(b) == b \in 128..191

\* Length of the well-formed UTF-8 sequence that starts b, 0 when b does
\* not start with one (bytes.decode("utf-8"), strict error handling).
Utf8SeqLen(b) ==
    IF b = <<>> THEN 0
    ELSE IF b[1] < 128 THEN 1
    ELSE IF b[1] \in 194..223
         THEN IF Len(b) >= 2 /\ IsCont(b[2]) THEN 2 ELSE 0
    ELSE IF b[1] \in 224..239
         THEN IF /\ Len(b) >= 3
                 /\ b[2] \in (IF b[1] = 224 THEN 160..191
                              ELSE IF b[1] = 237 THEN 128..159 ELSE 128..191)
                 /\ IsCont(b[3])
              THEN 3 ELSE 0
    ELSE IF b[1] \in 240..244
         THEN IF /\ Len(b) >= 4
                 /\ b[2] \in (IF b[1] = 240 THEN 144..191
                              ELSE IF b[1] = 244 THEN 128..143 ELSE 128..191)
                 /\ IsCont(b[3]) /\ IsCont(b[4])
              THEN 4 ELSE 0
    ELSE 0

\* Code point of the well-formed sequence of n bytes that starts b.
Utf8CodePoint(b, n) ==
    IF n = 1 THEN b[1]
    ELSE IF n = 2 THEN (b[1] - 192) * 64 + (b[2] - 128)
    ELSE IF n = 3 THEN (b[1] - 224) * 4096 + (b[2] - 128) * 64 + (b[3] - 128)
    ELSE (b[1] - 240) * 262144 + (b[2] - 128) * 4096
         + (b[3] - 128) * 64 + (b[4] - 128)

RECURSIVE decode_utf8(_)
\* bytes.decode("utf-8"): the text, or UnicodeDecodeError.
decode_utf8(b) ==
    IF b = <<>> THEN [raised |-> FALSE, value |-> <<>>]
    ELSE LET n == Utf8SeqLen(b) IN
         IF n = 0 THEN [raised |-> TRUE, value |-> <<"UnicodeDecodeError">>]
         ELSE LET rest == decode_utf8(SubSeq(b, n + 1, Len(b))) IN
              IF rest.raised THEN rest
              ELSE [raised |-> FALSE,
                    value |-> <<Chr(Utf8CodePoint(b, n))>> \o rest.value]

(* ----------------------- helper functions ----------------------------- *)

UnsupportedMsg ==
    <<"File type not supported for text extraction (only .txt or .csv).">>

analyze_uploaded_file_txt_only(file_bytes, filename) ==
    IF endswith(filename, <<".", "t", "x", "t">>)
    THEN decode_utf8(file_bytes)
    ELSE [raised |-> FALSE, value |-> UnsupportedMsg]

analyze_uploaded_file(file_bytes, filename) ==
    IF \/ endswith(filename, <<".", "t", "x", "t">>)
       \/ endswith(filename, <<".", "c", "s", "v">>)
    THEN decode_utf8(file_bytes)
    ELSE [raised |-> FALSE, value |-> UnsupportedMsg]

ApiErrorPrefix == <<"OpenAI API error: ">>

\* What openai.ChatCompletion.create does on one invocation: it raises an
\* exception e with str(e) = desc, or returns a response whose choices
\* each carry a message content that is a text or None.
Choice(is_none, content) == [content_is_none |-> is_none, content |-> content]

Outcome(raises, desc, choices) ==
    [raises |-> raises, desc |-> desc, choices |-> choices]

Outcomes ==
    { Outcome(FALSE, <<>>, <<Choice(FALSE, <<" ", "o", "k", "\n">>)>>),
      Outcome(TRUE, <<"timeout">>, <<>>),
      Outcome(FALSE, <<>>, <<>>),
      Outcome(FALSE, <<>>, <<Choice(TRUE, <<>>)>>) }

\* The body of the try block, lines 23-29: the exception it ends with
\* ("none" when it returns) and the value or the exception's str().
TryBody(messages, outcome) ==
    IF outcome.raises
    THEN [exc |-> "APIError", value |-> outcome.desc]
    ELSE IF Len(outcome.choices) = 0
    THEN [exc |-> "IndexError", value |-> <<"list index out of range">>]
    ELSE IF outcome.choices[1].content_is_none
    THEN [exc |-> "AttributeError",
          value |-> <<"'NoneType' object has no attribute 'strip'">>]
    ELSE [exc |-> "none", value |-> strip(outcome.choices[1].content)]

\* The result of a call: raised tells whether an exception left the
\* function, value is the returned string (or the exception's text), trace
\* lists the invocations of the external service the call made.
CallResult(raised, value, trace) ==
    [raised |-> raised, value |-> value, trace |-> trace]

Invocation(messages, outcome) == [messages |-> messages, outcome |-> outcome]

call_openai_chat_api_errors_only(messages, outcome) ==
    LET r == TryBody(messages, outcome) IN
    IF r.exc = "none"
    THEN CallResult(FALSE, r.value, <<Invocation(messages, outcome)>>)
    ELSE IF r.exc = "APIError"
    THEN CallResult(FALSE, ApiErrorPrefix \o r.value,
                    <<Invocation(messages, outcome)>>)
    ELSE CallResult(TRUE, r.value, <<Invocation(messages, outcome)>>)

call_openai_chat_retry(messages, outcome) ==
    LET r == TryBody(messages, outcome) IN
    IF r.exc = "none"
    THEN CallResult(FALSE, r.value, <<Invocation(messages, outcome)>>)
    ELSE CallResult(FALSE, ApiErrorPrefix \o r.value,
                    <<Invocation(messages, outcome),
                      Invocation(messages, outcome)>>)

call_openai_chat_no_description(messages, outcome) ==
    LET r == TryBody(messages, outcome) IN
    IF r.exc = "none"
    THEN CallResult(FALSE, r.value, <<Invocation(messages, outcome)>>)
    ELSE CallResult(FALSE, ApiErrorPrefix, <<Invocation(messages, outcome)>>)

\* Lines 21-31: except Exception catches whatever the try block raises.
call_openai_chat(messages, outcome) ==
    LET r == TryBody(messages, outcome) IN
    IF r.exc = "none"
    THEN CallResult(FALSE, r.value, <<Invocation(messages, outcome)>>)
    ELSE CallResult(FALSE, ApiErrorPrefix \o r.value,
                    <<Invocation(messages, outcome)>>)

Message(role, content) == [role |-> role, content |-> content]

ReportSystemMsg ==
    Message("system", <<"You are an expert safety inspector. Generate a concise inspection report based on the provided data.">>)

ReportUserPrefix ==
    <<"Generate a detailed safety inspection report from the following data:\n">>

generate_report_from_inspection_stripped(data, outcome) ==
    call_openai_chat(<<ReportSystemMsg,
                       Message("user", ReportUserPrefix \o strip(data))>>,
                     outcome)

\* Lines 33-42.
generate_report_from_inspection(data, outcome) ==
    call_openai_chat(<<ReportSystemMsg,
                       Message("user", ReportUserPrefix \o data)>>, outcome)

(* ------------------------- the script --------------------------------- *)

pages == <<"Home", "Upload Inspection Data", "Enter Inspection Details",
           "AI Report Generator", "Chat with Agent 004">>

\* Values of the secret store entry and of the environment variable;
\* "None" stands for an absent entry.
KeyValues == {"None", "", "sk-test"}

\* Line 11: secrets.get(...) or os.getenv(...).
OPENAI_API_KEY(secret, env) == IF secret \notin {"None", ""} THEN secret ELSE env

KeyMissing_none_only(key) == key = "None"

\* Line 13: not OPENAI_API_KEY.
KeyMissing(key) == key \in {"None", ""}

\* What the page shows: the kind of its body, the extracted data preview,
\* the generated report and the chat transcript.
Screen(kind, data, report, transcript) ==
    [kind |-> kind, data |-> data, report |-> report, transcript |-> transcript]

\* The outcome of one run of the script (or of a callback).
Run(st, scr, ss, trace) ==
    [status |-> st, screen |-> scr, session_state |-> ss, trace |-> trace]

Button(pressed, outcome) == [pressed |-> pressed, outcome |-> outcome]

NotPressed == Button(FALSE, Outcome(FALSE, <<>>, <<>>))

NoFile == [present |-> FALSE, bytes |-> <<>>, name |-> <<>>]

Today == <<"2026-11-03">>

EmptyForm == [inspector_name |-> <<>>, location |-> <<>>, date |-> Today,
              notes |-> <<>>, hazards_found |-> <<>>, recommendations |-> <<>>]

\* Lines 63-74.
HomePage(ss) == Run("ok", Screen("home", <<>>, <<>>, <<>>), ss, <<>>)

\* Lines 76-88.
UploadPage(up, button, ss) ==
    IF ~up.present
    THEN Run("ok", Screen("upload", <<>>, <<>>, <<>>), ss, <<>>)
    ELSE LET extracted_text == analyze_uploaded_file(up.bytes, up.name) IN
         IF extracted_text.raised
         THEN Run("exception",
                  Screen("exception", <<>>, extracted_text.value, <<>>), ss, <<>>)
         ELSE IF ~button.pressed
         THEN Run("ok", Screen("preview", extracted_text.value, <<>>, <<>>),
                  ss, <<>>)
         ELSE LET report == generate_report_from_inspection(
                                extracted_text.value, button.outcome) IN
              IF report.raised
              THEN Run("exception",
                       Screen("exception", extracted_text.value, report.value,
                              <<>>), ss, report.trace)
              ELSE Run("ok", Screen("report", extracted_text.value,
                                    report.value, <<>>), ss, report.trace)

\* Lines 104-111.
input_data(fm) ==
    <<"Inspector: ">> \o fm.inspector_name \o <<"\n">>
    \o <<"Location: ">> \o fm.location \o <<"\n">>
    \o <<"Date: ">> \o fm.date \o <<"\n">>
    \o <<"Notes: ">> \o fm.notes \o <<"\n">>
    \o <<"Hazards Found: ">> \o fm.hazards_found \o <<"\n">>
    \o <<"Recommendations: ">> \o fm.recommendations

FormError ==
    <<"Please fill at least Inspector Name and Inspection Location.">>

FormIncomplete_name_only(fm) == fm.inspector_name = <<>>

\* Line 101: not inspector_name or not location.
FormIncomplete(fm) == fm.inspector_name = <<>> \/ fm.location = <<>>

\* Lines 90-115.
EntryPage(fm, button, ss) ==
    IF ~button.pressed
    THEN Run("ok", Screen("form", <<>>, <<>>, <<>>), ss, <<>>)
    ELSE IF FormIncomplete(fm)
    THEN Run("ok", Screen("error", <<>>, FormError, <<>>), ss, <<>>)
    ELSE LET report == generate_report_from_inspection(input_data(fm),
                                                       button.outcome) IN
         IF report.raised
         THEN Run("exception", Screen("exception", <<>>, report.value, <<>>),
                  ss, report.trace)
         ELSE Run("ok", Screen("report", <<>>, report.value, <<>>), ss,
                  report.trace)

TextError == <<"Please enter some text to generate a report.">>

\* Lines 117-128.
GeneratorPage(rt, button, ss) ==
    IF ~button.pressed
    THEN Run("ok", Screen("form", <<>>, <<>>, <<>>), ss, <<>>)
    ELSE IF strip(rt) = <<>>
    THEN Run("ok", Screen("error", <<>>, TextError, <<>>), ss, <<>>)
    ELSE LET report == generate_report_from_inspection(rt, button.outcome) IN
         IF report.raised
         THEN Run("exception", Screen("exception", <<>>, report.value, <<>>),
                  ss, report.trace)
         ELSE Run("ok", Screen("report", <<>>, report.value, <<>>), ss,
                  report.trace)

ChatSystemMsg ==
    Message("system", <<"You are a helpful safety inspection AI assistant.">>)

submit_chat_latest_only(ss, outcome) ==
    LET user_msg == ss.user_input
        h1 == Append(ss.chat_history, Message("user", user_msg))
        response == call_openai_chat(
                        <<ChatSystemMsg, Message("user", user_msg)>>, outcome)
    IN  IF response.raised
        THEN Run("exception", Screen("exception", <<>>, response.value, <<>>),
                 [ss EXCEPT !.chat_history = h1], response.trace)
        ELSE Run("ok", Screen("blank", <<>>, <<>>, <<>>),
                 [ss EXCEPT !.chat_history =
                                Append(h1, Message("assistant", response.value)),
                            !.user_input = <<>>],
                 response.trace)

submit_chat_last_turn_only(ss, outcome) ==
    LET user_msg == ss.user_input
        h1 == Append(ss.chat_history, Message("user", user_msg))
        response == call_openai_chat(<<ChatSystemMsg>> \o h1, outcome)
    IN  IF response.raised
        THEN Run("exception", Screen("exception", <<>>, response.value, <<>>),
                 [ss EXCEPT !.chat_history = h1], response.trace)
        ELSE Run("ok", Screen("blank", <<>>, <<>>, <<>>),
                 [ss EXCEPT !.chat_history =
                                <<Message("user", user_msg),
                                  Message("assistant", response.value)>>,
                            !.user_input = <<>>],
                 response.trace)

submit_chat_drop_failed(ss, outcome) ==
    LET user_msg == ss.user_input
        h1 == Append(ss.chat_history, Message("user", user_msg))
        response == call_openai_chat(<<ChatSystemMsg>> \o h1, outcome)
    IN  IF response.raised
        THEN Run("exception", Screen("exception", <<>>, response.value, <<>>),
                 [ss EXCEPT !.chat_history = h1], response.trace)
        ELSE IF SubSeq(response.value, 1, 1) = ApiErrorPrefix
        THEN Run("ok", Screen("blank", <<>>, <<>>, <<>>),
                 [ss EXCEPT !.user_input = <<>>], response.trace)
        ELSE Run("ok", Screen("blank", <<>>, <<>>, <<>>),
                 [ss EXCEPT !.chat_history =
                                Append(h1, Message("assistant", response.value)),
                            !.user_input = <<>>],
                 response.trace)

\* Lines 136-145, the on_change callback of the chat input.
submit_chat(ss, outcome) ==
    LET user_msg == ss.user_input
        h1 == Append(ss.chat_history, Message("user", user_msg))
        response == call_openai_chat(<<ChatSystemMsg>> \o h1, outcome)
    IN  IF response.raised
        THEN Run("exception", Screen("exception", <<>>, response.value, <<>>),
                 [ss EXCEPT !.chat_history = h1], response.trace)
        ELSE Run("ok", Screen("blank", <<>>, <<>>, <<>>),
                 [ss EXCEPT !.chat_history =
                                Append(h1, Message("assistant", response.value)),
                            !.user_input = <<>>],
                 response.trace)

\* Lines 147-151.
Transcript(h) ==
    [i \in 1..Len(h) |->
        [speaker |-> IF h[i].role = "user" THEN "You" ELSE "Agent 004",
         content |-> h[i].content]]

\* Lines 130-153 without the callback.
ChatPage(ss) ==
    LET ss1 == IF ss.chat_history_set THEN ss
               ELSE [ss EXCEPT !.chat_history_set = TRUE,
                               !.chat_history = <<>>]
    IN  Run("ok", Screen("chat", <<>>, <<>>, Transcript(ss1.chat_history)),
            ss1, <<>>)

\* One run of the script, lines 11-157.
Script(pg, up, fm, rt, ss, button) ==
    IF KeyMissing(OPENAI_API_KEY(secrets_key, env_key))
    THEN Run("stopped", Screen("warning", <<>>, <<>>, <<>>), ss, <<>>)
    ELSE IF pg = "Home" THEN HomePage(ss)
    ELSE IF pg = "Upload Inspection Data" THEN UploadPage(up, button, ss)
    ELSE IF pg = "Enter Inspection Details" THEN EntryPage(fm, button, ss)
    ELSE IF pg = "AI Report Generator" THEN GeneratorPage(rt, button, ss)
    ELSE ChatPage(ss)

(* ------------------------- input domains ------------------------------ *)

RECURSIVE SeqsUpTo(_, _)
\* All sequences over S of length at most n.
SeqsUpTo(S, n) ==
    IF n = 0 THEN {<<>>}
    ELSE LET shorter == SeqsUpTo(S, n - 1) IN
         shorter \cup {Append(q, x) : q \in shorter, x \in S}

\* File names the uploader (type=["txt", "csv"], matched without regard to
\* case) lets through.
UploadNames == { <<"a", ".", "t", "x", "t">>, <<"a", ".", "c", "s", "v">>,
                 <<"a", ".", "T", "X", "T">> }

\* File names analyze_uploaded_file is applied to as a function.
AnyNames == UploadNames \cup
            { <<"a", ".", "p", "d", "f">>, <<".", "t", "x", "t", ".", "b">>,
              <<"c", "s", "v">>, <<>> }

\* File contents put into the uploader: empty, ASCII, a two-byte character,
\* and a truncated two-byte character.
UploadContents == {<<>>, <<65>>, <<195, 169>>, <<65, 195>>}

\* The fields the inspector types into; the other text areas stay empty.
FormFields == {"inspector_name", "location", "notes"}

FieldValues(f) ==
    IF f = "inspector_name" THEN {<<>>, <<"A">>}
    ELSE IF f = "location" THEN {<<>>, <<"L">>}
    ELSE {<<>>, <<"n">>}

RawTexts == {<<>>, <<" ">>, <<"r">>, <<" ", "r", "\n">>}

ChatTexts == {<<"h", "i">>, <<"?">>}

(* --------------------------- actions ---------------------------------- *)

Blank == Screen("blank", <<>>, <<>>, <<>>)

Init ==
    /\ secrets_key \in KeyValues
    /\ env_key \in KeyValues
    /\ status = "new"
    /\ event = "none"
    /\ page = pages[1]
    /\ screen = Blank
    /\ uploaded_file = NoFile
    /\ form = EmptyForm
    /\ raw_text = <<>>
    /\ session_state = [chat_history_set |-> FALSE, chat_history |-> <<>>,
                        user_input |-> <<>>]
    /\ api_trace = <<>>
    /\ api_calls = 0
    /\ submitted = <<>>

\* The effect of a run r of the script on the session.
Apply(r) ==
    /\ status' = r.status
    /\ screen' = r.screen
    /\ session_state' = r.session_state
    /\ api_trace' = r.trace
    /\ api_calls' = api_calls + Len(r.trace)

\* The widgets of the page are there to be used.
Rendered(pg) == status \in {"ok", "exception"} /\ page = pg

\* The browser opens the app: first run, the radio at its first option.
Load ==
    /\ status = "new"
    /\ event' = "load"
    /\ Apply(Script(page, uploaded_file, form, raw_text, session_state,
                    NotPressed))
    /\ UNCHANGED <<secrets_key, env_key, page, uploaded_file, form, raw_text,
                   submitted>>

\* The script is run again with the widgets as they are (no button pressed).
Rerun ==
    /\ status # "new"
    /\ event' = "rerun"
    /\ Apply(Script(page, uploaded_file, form, raw_text, session_state,
                    NotPressed))
    /\ UNCHANGED <<secrets_key, env_key, page, uploaded_file, form, raw_text,
                   submitted>>

\* Line 61: another page is chosen; the widgets of the page left are gone.
Navigate(pg) ==
    /\ status \in {"ok", "exception"}
    /\ pg # page
    /\ event' = "navigate"
    /\ page' = pg
    /\ uploaded_file' = NoFile
    /\ form' = EmptyForm
    /\ raw_text' = <<>>
    /\ Apply(Script(pg, NoFile, EmptyForm, <<>>, session_state, NotPressed))
    /\ UNCHANGED <<secrets_key, env_key, submitted>>

\* Lines 78-83: a file is put into the uploader.
Upload(bytes, name) ==
    /\ Rendered("Upload Inspection Data")
    /\ LET up == [present |-> TRUE, bytes |-> bytes, name |-> name] IN
       /\ up # uploaded_file
       /\ uploaded_file' = up
       /\ Apply(Script(page, up, form, raw_text, session_state, NotPressed))
    /\ event' = "upload"
    /\ UNCHANGED <<secrets_key, env_key, page, form, raw_text, submitted>>

\* Lines 84-88: the button under the preview is pressed.
PressGenerateUploaded(outcome) ==
    /\ Rendered("Upload Inspection Data")
    /\ screen.kind \in {"preview", "report"}
    /\ LET r == Script(page, uploaded_file, form, raw_text, session_state,
                       Button(TRUE, outcome)) IN
       /\ api_calls + Len(r.trace) <= MaxCalls
       /\ Apply(r)
    /\ event' = "press"
    /\ UNCHANGED <<secrets_key, env_key, page, uploaded_file, form, raw_text,
                   submitted>>

\* Lines 93-98: one field of the form is changed.
EditForm(f, v) ==
    /\ Rendered("Enter Inspection Details")
    /\ form[f] # v
    /\ form' = [form EXCEPT ![f] = v]
    /\ Apply(Script(page, uploaded_file, [form EXCEPT ![f] = v], raw_text,
                    session_state, NotPressed))
    /\ event' = "edit"
    /\ UNCHANGED <<secrets_key, env_key, page, uploaded_file, raw_text,
                   submitted>>

\* Lines 100-115.
PressGenerateEntered(outcome) ==
    /\ Rendered("Enter Inspection Details")
    /\ LET r == Script(page, uploaded_file, form, raw_text, session_state,
                       Button(TRUE, outcome)) IN
       /\ api_calls + Len(r.trace) <= MaxCalls
       /\ Apply(r)
    /\ event' = "press"
    /\ UNCHANGED <<secrets_key, env_key, page, uploaded_file, form, raw_text,
                   submitted>>

\* Line 120.
EditRawText(t) ==
    /\ Rendered("AI Report Generator")
    /\ raw_text # t
    /\ raw_text' = t
    /\ Apply(Script(page, uploaded_file, form, t, session_state, NotPressed))
    /\ event' = "edit"
    /\ UNCHANGED <<secrets_key, env_key, page, uploaded_file, form, submitted>>

\* Lines 121-128.
PressGenerateReport(outcome) ==
    /\ Rendered("AI Report Generator")
    /\ LET r == Script(page, uploaded_file, form, raw_text, session_state,
                       Button(TRUE, outcome)) IN
       /\ api_calls + Len(r.trace) <= MaxCalls
       /\ Apply(r)
    /\ event' = "press"
    /\ UNCHANGED <<secrets_key, env_key, page, uploaded_file, form, raw_text,
                   submitted>>

\* Line 153: the chat input changes to text; the widget stores it under
\* its key, the callback runs, then the script runs again.
SubmitChat(text, outcome) ==
    /\ Rendered("Chat with Agent 004")
    /\ text # session_state.user_input
    /\ LET c == submit_chat([session_state EXCEPT !.user_input = text],
                            outcome) IN
       /\ api_calls + Len(c.trace) <= MaxCalls
       /\ IF c.status = "exception"
          THEN Apply(c)
          ELSE LET r == Script(page, uploaded_file, form, raw_text,
                               c.session_state, NotPressed) IN
               Apply(Run(r.status, r.screen, r.session_state, c.trace))
    /\ event' = "submit"
    /\ submitted' = Append(submitted, [text |-> text, outcome |-> outcome])
    /\ UNCHANGED <<secrets_key, env_key, page, uploaded_file, form, raw_text>>

Next ==
    \/ Load
    \/ Rerun
    \/ \E i \in 1..Len(pages) : Navigate(pages[i])
    \/ \E b \in UploadContents : \E n \in UploadNames : Upload(b, n)
    \/ \E o \in Outcomes : PressGenerateUploaded(o)
    \/ \E f \in FormFields : \E v \in FieldValues(f) : EditForm(f, v)
    \/ \E o \in Outcomes : PressGenerateEntered(o)
    \/ \E t \in RawTexts : EditRawText(t)
    \/ \E o \in Outcomes : PressGenerateReport(o)
    \/ \E t \in ChatTexts : \E o \in Outcomes : SubmitChat(t, o)

Spec == Init /\ [][Next]_vars

(* ---- analyze_uploaded_file as a function of any bytes and file name --- *)

ExtractInit ==
    /\ Init
    /\ ~KeyMissing(OPENAI_API_KEY(secrets_key, env_key))

\* The function is handed a file, and the page its result.
Analyze(bytes, name) ==
    /\ event \in {"none", "analyze"}
    /\ LET up == [present |-> TRUE, bytes |-> bytes, name |-> name] IN
       /\ up # uploaded_file
       /\ uploaded_file' = up
       /\ Apply(UploadPage(up, NotPressed, session_state))
    /\ event' = "analyze"
    /\ page' = "Upload Inspection Data"
    /\ UNCHANGED <<secrets_key, env_key, form, raw_text, submitted>>

ExtractNext ==
    \E b \in SeqsUpTo(FileBytes, MaxBytes) : \E n \in AnyNames : Analyze(b, n)

ExtractSpec == ExtractInit /\ [][ExtractNext]_vars

(* ============================ claims ================================== *)

IsPrefix(a, b) == Len(a) <= Len(b) /\ SubSeq(b, 1, Len(a)) = a

\* sub occurs in s as a contiguous run.
Contains(s, sub) ==
    \E i \in 1..(Len(s) + 1) :
        /\ i + Len(sub) - 1 <= Len(s)
        /\ SubSeq(s, i, i + Len(sub) - 1) = sub

\* The external call did not yield a generated text.
Failed(outcome) ==
    \/ outcome.raises
    \/ Len(outcome.choices) = 0
    \/ outcome.choices[1].content_is_none

\* The description of the failure: str(e) of the exception raised.
FailureDescription(outcome) ==
    IF outcome.raises THEN outcome.desc
    ELSE IF Len(outcome.choices) = 0 THEN <<"list index out of range">>
    ELSE <<"'NoneType' object has no attribute 'strip'">>

\* r is s without the whitespace at its two ends.
IsTrimOf(r, s) ==
    \E i \in 1..(Len(s) + 1) :
        /\ i + Len(r) - 1 <= Len(s)
        /\ SubSeq(s, i, i + Len(r) - 1) = r
        /\ \A j \in 1..Len(s) :
               (j < i \/ j > i + Len(r) - 1) => s[j] \in Whitespace
        /\ r # <<>> => (r[1] \notin Whitespace /\ r[Len(r)] \notin Whitespace)

\* What the completion client is to return for an outcome of the service.
IsCompletionResult(v, outcome) ==
    IF Failed(outcome)
    THEN v = <<"OpenAI API error: ">> \o FailureDescription(outcome)
    ELSE IsTrimOf(v, outcome.choices[1].content)

chat_history == session_state.chat_history

\* C1: after N chat submissions the history holds exactly 2N messages,
\* user and assistant in turn; the k-th user message carries the text of
\* the k-th submission and is followed by the completion result returned
\* for that submission.
C1_HistoryIsSubmissionsInOrder ==
    /\ Len(chat_history) = 2 * Len(submitted)
    /\ \A k \in 1..Len(submitted) :
           /\ 2 * k <= Len(chat_history)
           /\ chat_history[2 * k - 1] = Message("user", submitted[k].text)
           /\ chat_history[2 * k].role = "assistant"
           /\ IsCompletionResult(chat_history[2 * k].content,
                                 submitted[k].outcome)

C1_Witness ==
    /\ Len(submitted) = 2
    /\ Len(chat_history) = 4
    /\ submitted[1].text # submitted[2].text
    /\ Failed(submitted[1].outcome)
    /\ ~Failed(submitted[2].outcome)

\* C2: every step of the session leaves the chat history as it was or
\* appends to it: the history before the step is a prefix of the history
\* after it, and a history once created stays.
C2_HistoryAppendOnly ==
    [][/\ IsPrefix(chat_history, session_state'.chat_history)
       /\ session_state.chat_history_set => session_state'.chat_history_set]_vars

C2_Witness ==
    /\ event = "navigate"
    /\ page = "Chat with Agent 004"
    /\ Len(chat_history) = 4

\* C3: a chat submission whose external call fails still appends an
\* assistant message whose content holds the failure description, right
\* after the user message of that submission.
C3_FailedTurnIsStored ==
    (event = "submit" /\ Failed(submitted[Len(submitted)].outcome)) =>
        LET n == Len(chat_history) IN
        /\ n >= 2
        /\ chat_history[n].role = "assistant"
        /\ Contains(chat_history[n].content,
                    FailureDescription(submitted[Len(submitted)].outcome))
        /\ api_trace # <<>>
        /\ chat_history[n].content =
               call_openai_chat(api_trace[1].messages,
                                api_trace[1].outcome).value
        /\ chat_history[n - 1] =
               Message("user", submitted[Len(submitted)].text)

C3_Witness ==
    /\ event = "submit"
    /\ submitted[Len(submitted)].outcome.raises
    /\ Len(chat_history) = 2
    /\ chat_history[2] =
           Message("assistant", <<"OpenAI API error: ", "timeout">>)

\* The string the last call of the completion client handed to its caller.
Returned ==
    IF event = "submit" THEN chat_history[Len(chat_history)].content
    ELSE screen.report

\* C4: whatever the external service does, call_openai_chat returns a
\* string and raises nothing: 'OpenAI API error: ' and the description on
\* a failure, the generated text without its surrounding whitespace
\* otherwise.
C4_ClientNeverRaises ==
    api_trace # <<>> =>
        /\ status = "ok"
        /\ screen.kind # "exception"
        /\ event = "submit" => chat_history # <<>>
        /\ IsCompletionResult(Returned, api_trace[Len(api_trace)].outcome)

C4_Witness ==
    /\ event = "press"
    /\ api_trace # <<>>
    /\ api_trace[1].outcome.choices = <<>>
    /\ ~api_trace[1].outcome.raises
    /\ screen.report = <<"OpenAI API error: ", "list index out of range">>

\* C5: a chat submission sends the system instruction, then the whole
\* history as it was, then the message just submitted (history length
\* + 2 messages), and leaves the input field empty.
C5_RequestIsFullHistory ==
    [][event' = "submit" =>
         /\ api_trace' # <<>>
         /\ api_trace'[1].messages =
                <<ChatSystemMsg>> \o chat_history
                \o <<Message("user", submitted'[Len(submitted')].text)>>
         /\ Len(api_trace'[1].messages) = Len(chat_history) + 2
         /\ session_state'.user_input = <<>>]_vars

C5_Witness ==
    /\ event = "submit"
    /\ Len(chat_history) = 4
    /\ Len(api_trace[1].messages) = 4

\* The blob the page hands to generate_report_from_inspection.
Blob ==
    IF page = "Upload Inspection Data" THEN screen.data
    ELSE IF page = "Enter Inspection Details"
    THEN <<"Inspector: ">> \o form.inspector_name
         \o <<"\n", "Location: ">> \o form.location
         \o <<"\n", "Date: ">> \o form.date
         \o <<"\n", "Notes: ">> \o form.notes
         \o <<"\n", "Hazards Found: ">> \o form.hazards_found
         \o <<"\n", "Recommendations: ">> \o form.recommendations
    ELSE raw_text

\* C6: a report request is two messages, the fixed system instruction and
\* a user message that holds the blob verbatim, and the report shown is
\* what the completion client returned, error string included.
C6_ReportRequestShape ==
    (event = "press" /\ api_trace # <<>>) =>
        LET m == api_trace[1].messages IN
        /\ Len(m) = 2
        /\ m[1].role = "system"
        /\ m[1].content = <<"You are an expert safety inspector. Generate a concise inspection report based on the provided data.">>
        /\ m[2].role = "user"
        /\ Contains(m[2].content, Blob)
        /\ screen.report =
               call_openai_chat(m, api_trace[1].outcome).value

C6_Witness ==
    /\ event = "press"
    /\ page = "AI Report Generator"
    /\ raw_text = <<" ", "r", "\n">>
    /\ api_trace # <<>>
    /\ Failed(api_trace[1].outcome)
    /\ screen.kind = "report"

\* C7: on the manual entry page a press of the button with the inspector
\* name or the location empty shows the validation error and invokes
\* nothing; with both filled in it invokes the service.
C7_EmptyFieldsBlockTheCall ==
    (event = "press" /\ page = "Enter Inspection Details") =>
        IF form.inspector_name = <<>> \/ form.location = <<>>
        THEN screen.kind = "error" /\ api_trace = <<>>
        ELSE api_trace # <<>>

C7_Witness ==
    /\ event = "press"
    /\ page = "Enter Inspection Details"
    /\ form.inspector_name # <<>>
    /\ form.location = <<>>
    /\ screen.kind = "error"

\* No key in the secret store and none in the environment.
NoKeyConfigured ==
    secrets_key \in {"None", ""} /\ env_key \in {"None", ""}

\* C8: without an API key the script stops at its start: only the
\* warning is shown, no chat history is created, nothing is invoked.
C8_NoKeyHalts ==
    NoKeyConfigured =>
        /\ status \in {"new", "stopped"}
        /\ screen.kind \in {"blank", "warning"}
        /\ ~session_state.chat_history_set
        /\ api_calls = 0
        /\ api_trace = <<>>

C8_Witness ==
    /\ NoKeyConfigured
    /\ secrets_key = ""
    /\ status = "stopped"
    /\ event = "rerun"
    /\ screen.kind = "warning"

\* The code point of a character of the model.
Ord(ch) == (CHOOSE p \in CharTable : p[2] = ch)[1]

RECURSIVE Utf8Encode(_)
\* The UTF-8 bytes of a text of code points below 2048.
Utf8Encode(t) ==
    IF t = <<>> THEN <<>>
    ELSE LET cp == Ord(Head(t)) IN
         (IF cp < 128 THEN <<cp>>
          ELSE <<192 + (cp \div 64), 128 + (cp % 64)>>)
         \o Utf8Encode(Tail(t))

\* The texts whose encoding is at most as long as a file of the model.
Texts == SeqsUpTo({p[2] : p \in CharTable}, MaxBytes)

ValidUtf8(bytes) == \E t \in Texts : Utf8Encode(t) = bytes

SupportedName(name) ==
    \E stem \in {SubSeq(name, 1, i) : i \in 0..Len(name)} :
        \/ name = stem \o <<".", "t", "x", "t">>
        \/ name = stem \o <<".", "c", "s", "v">>

\* C9: for a file name ending in .txt or .csv and valid UTF-8 bytes the
\* extracted text is the text those bytes encode; for any other file
\* name it is the fixed unsupported-format message, whatever the bytes.
C9_ExtractionByExtension ==
    event = "analyze" =>
        IF SupportedName(uploaded_file.name)
        THEN ValidUtf8(uploaded_file.bytes) =>
                 /\ screen.kind = "preview"
                 /\ screen.data \in Texts
                 /\ Utf8Encode(screen.data) = uploaded_file.bytes
        ELSE /\ screen.kind = "preview"
             /\ screen.data = <<"File type not supported for text extraction (only .txt or .csv).">>

C9_Witness ==
    /\ event = "analyze"
    /\ uploaded_file.name = <<"a", ".", "c", "s", "v">>
    /\ uploaded_file.bytes = <<195, 169>>
    /\ screen.data = <<"U+00E9">>

\* C10: a chat submission or an accepted press of a generate button
\* invokes the external service exactly once, failed or not; no other
\* step invokes it.
C10_OneInvocationPerAction ==
    [][IF \/ event' = "submit"
          \/ (event' = "press" /\ screen'.kind # "error")
       THEN api_calls' = api_calls + 1 /\ Len(api_trace') = 1
       ELSE api_calls' = api_calls /\ api_trace' = <<>>]_vars

C10_Witness ==
    /\ api_calls = 2
    /\ event = "submit"
    /\ Len(api_trace) = 1
    /\ Failed(api_trace[1].outcome)

====
